---------------------------- MODULE Spec2Model ----------------------------
(***************************************************************************)
(* A model of CNV_annotator.py: the HGVSCNVAnnotator class (coordinate     *)
(* parsing, the two table lookups, cytoband reduction, HGVS notation) and  *)
(* the Streamlit Annotate handler that calls it.                           *)
(*                                                                         *)
(* Python strings are sequences of one-character strings, so that strip,   *)
(* lower, replace, startswith, split, int() and f-string formatting are    *)
(* computed character by character.  Python's None, where a string is      *)
(* expected, is the one-element sequence None, which no text equals        *)
(* because its only element is not a single character.                     *)
(***************************************************************************)
EXTENDS Integers, Sequences, FiniteSets, TLC

(***************************************************************************)
(* Bounds of the model.                                                    *)
(***************************************************************************)
\* Largest coordinate of a table record, of a direct lookup and of a
\* generated coordinate text.
MaxPos == 2
\* Largest number of rows of a table in the lookup specifications.
MaxRows == 2
\* Largest number of calls made on one annotator.
MaxCalls == 2

(***************************************************************************)
(* Strings.                                                                *)
(***************************************************************************)
\* The strings, as the domain of the string functions.
Str == Seq(STRING)

None == <<"None">>

Digits == <<"0", "1", "2", "3", "4", "5", "6", "7", "8", "9">>

UpperLetters == <<"A", "B", "C", "D", "E", "F", "G", "H", "I", "J", "K", "L", "M",
                  "N", "O", "P", "Q", "R", "S", "T", "U", "V", "W", "X", "Y", "Z">>

LowerLetters == <<"a", "b", "c", "d", "e", "f", "g", "h", "i", "j", "k", "l", "m",
                  "n", "o", "p", "q", "r", "s", "t", "u", "v", "w", "x", "y", "z">>

\* The characters of the model in code point order: the order Python compares
\* strings by.
CodePoints == <<"\n", " ", "'", "(", ")", "-", ".">> \o Digits \o <<":", "?">>
                  \o UpperLetters \o <<"[", "]", "_">> \o LowerLetters

ord[c \in STRING] == CHOOSE i \in DOMAIN CodePoints : CodePoints[i] = c

IsDigit[c \in STRING] == \E i \in DOMAIN Digits : Digits[i] = c

\* str < str: lexicographic by code point, a proper prefix first.
str_lt[a \in Str, b \in Str] ==
    IF b = <<>> THEN FALSE
    ELSE IF a = <<>> THEN TRUE
    ELSE IF Head(a) = Head(b) THEN str_lt[Tail(a), Tail(b)]
    ELSE ord[Head(a)] < ord[Head(b)]

startswith[s \in Str, p \in Str] == Len(s) >= Len(p) /\ SubSeq(s, 1, Len(p)) = p

\* str.lower(), a character at a time.
lower_char[c \in STRING] ==
    IF \E i \in DOMAIN UpperLetters : UpperLetters[i] = c
    THEN LowerLetters[CHOOSE i \in DOMAIN UpperLetters : UpperLetters[i] = c]
    ELSE c

lower[s \in Str] == IF s = <<>> THEN <<>> ELSE <<lower_char[Head(s)]>> \o lower[Tail(s)]

IsSpace[c \in STRING] == c \in {" ", "\n"}

lstrip[s \in Str] == IF s # <<>> /\ IsSpace[Head(s)] THEN lstrip[Tail(s)] ELSE s

rstrip[s \in Str] ==
    IF s # <<>> /\ IsSpace[s[Len(s)]] THEN rstrip[SubSeq(s, 1, Len(s) - 1)] ELSE s

\* str.strip()
strip[s \in Str] == rstrip[lstrip[s]]

\* str.replace(old, ""): every non-overlapping occurrence, left to right.
remove_all[s \in Str, old \in Str] ==
    IF s = <<>> THEN <<>>
    ELSE IF startswith[s, old] THEN remove_all[SubSeq(s, Len(old) + 1, Len(s)), old]
    ELSE <<Head(s)>> \o remove_all[Tail(s), old]

\* int(s) of a string of decimal digits.
int[s \in Str] ==
    IF s = <<>> THEN 0
    ELSE 10 * int[SubSeq(s, 1, Len(s) - 1)] + (ord[s[Len(s)]] - ord["0"])

\* str(n), the formatting of an integer n >= 0 in an f-string.
str[n \in Nat] == IF n < 10 THEN <<Digits[n + 1]>> ELSE str[n \div 10] \o <<Digits[(n % 10) + 1]>>

\* The position of the first c in s, 0 when there is none.
IndexOf[s \in Str, c \in STRING] ==
    IF \E i \in DOMAIN s : s[i] = c
    THEN CHOOSE i \in DOMAIN s : s[i] = c /\ \A j \in 1..(i - 1) : s[j] # c
    ELSE 0

\* str.split(sep) for a one-character separator.
split[s \in Str, sep \in STRING] ==
    LET i == IndexOf[s, sep]
    IN  IF i = 0 THEN <<s>>
        ELSE <<SubSeq(s, 1, i - 1)>> \o split[SubSeq(s, i + 1, Len(s)), sep]

\* sep.join(parts)
join[parts \in Seq(Str), sep \in Str] ==
    IF parts = <<>> THEN <<>>
    ELSE IF Len(parts) = 1 THEN parts[1]
    ELSE parts[1] \o sep \o join[Tail(parts), sep]

S_chr == <<"c", "h", "r">>
S_X == <<"X">>
S_Y == <<"Y">>
S_M == <<"M">>
S_MT == <<"M", "T">>
S_16 == <<"1", "6">>
S_dup == <<"d", "u", "p">>
S_duplication == <<"d", "u", "p", "l", "i", "c", "a", "t", "i", "o", "n">>
S_del == <<"d", "e", "l">>
S_deletion == <<"d", "e", "l", "e", "t", "i", "o", "n">>
S_hom == <<"h", "o", "m">>
S_homozygous == <<"h", "o", "m", "o", "z", "y", "g", "o", "u", "s">>
S_het == <<"h", "e", "t">>
S_heterozygous == <<"h", "e", "t", "e", "r", "o", "z", "y", "g", "o", "u", "s">>
S_partial == <<" ", "p", "a", "r", "t", "i", "a", "l", " ">>


(***************************************************************************)
(* parse_coordinate.                                                       *)
(***************************************************************************)
AllDigits[s \in Str] == s # <<>> /\ \A i \in DOMAIN s : IsDigit[s[i]]

\* The alternatives of group 2 of coordinate_pattern: \d+|X|Y|M|MT
IsChromToken[s \in Str] == AllDigits[s] \/ s \in {S_X, S_Y, S_M, S_MT}

\* What re.match gives: whether the text matched, and groups 2 to 4.
Matches == [matched : BOOLEAN, group2 : Str, group3 : Str, group4 : Str]

NoMatch == [matched |-> FALSE, group2 |-> <<>>, group3 |-> <<>>, group4 |-> <<>>]

\* (\d+)-(\d+)$ against rest, after the chromosome token g2 and the colon.
\* The start digits hold no "-", so the first one is the separator.
match_positions[g2 \in Str, rest \in Str, dash \in Nat] ==
    IF /\ dash > 0
       /\ AllDigits[SubSeq(rest, 1, dash - 1)]
       /\ AllDigits[SubSeq(rest, dash + 1, Len(rest))]
    THEN [matched |-> TRUE, group2 |-> g2, group3 |-> SubSeq(rest, 1, dash - 1),
          group4 |-> SubSeq(rest, dash + 1, Len(rest))]
    ELSE NoMatch

\* (\d+|X|Y|M|MT): against the start of t, the colon being at position colon.
\* The chromosome token holds no ":", so the first one is the separator.
match_chromosome[t \in Str, colon \in Nat] ==
    IF colon > 0 /\ IsChromToken[SubSeq(t, 1, colon - 1)]
    THEN match_positions[SubSeq(t, 1, colon - 1), SubSeq(t, colon + 1, Len(t)),
                         IndexOf[SubSeq(t, colon + 1, Len(t)), "-"]]
    ELSE NoMatch

\* (\d+|X|Y|M|MT):(\d+)-(\d+)$ against the whole of t.
match_body[t \in Str] == match_chromosome[t, IndexOf[t, ":"]]

\* re.match(self.coordinate_pattern, s): (chr)? takes the prefix when the rest
\* then matches, and is skipped otherwise.
coordinate_pattern[s \in Str] ==
    IF startswith[s, S_chr] /\ match_body[SubSeq(s, 4, Len(s))].matched
    THEN match_body[SubSeq(s, 4, Len(s))]
    ELSE match_body[s]

\* What parse_coordinate returns: None, or the tuple (chrom, start, end).
ReturnNone == [none |-> TRUE, chrom |-> <<>>, start |-> 0, end |-> 0]

ReturnRange(c, s, e) == [none |-> FALSE, chrom |-> c, start |-> s, end |-> e]

\* A printed line: the f-string and the values it interpolates.
Messages == [text : STRING, args : Seq(Str)]

\* The one message parse_coordinate prints.
RangeMessage(s, e) ==
    [text |-> "Error: Start position ({}) must be less than end position ({})",
     args |-> <<str[s], str[e]>>]

\* The value parse_coordinate returns and the lines it prints.
ParseResults ==
    [ret : [none : BOOLEAN, chrom : Str, start : Nat, end : Nat], printed : Seq(Messages)]

\* The test of line 41.
bad_range(start, end) == start >= end

\* Lines 41 to 44.
parse_range[chrom \in Str, start \in Nat, end \in Nat] ==
    IF bad_range(start, end)
    THEN [ret |-> ReturnNone, printed |-> <<RangeMessage(start, end)>>]
    ELSE [ret |-> ReturnRange(chrom, start, end), printed |-> <<>>]

\* Lines 36 to 40.
parse_match[match \in Matches] ==
    IF ~match.matched
    THEN [ret |-> ReturnNone, printed |-> <<>>]
    ELSE parse_range[match.group2, int[match.group3], int[match.group4]]

\* parse_coordinate(coordinate)
parse_coordinate[coordinate \in Str] == parse_match[coordinate_pattern[strip[coordinate]]]

(***************************************************************************)
(* The reference tables and their loading.                                 *)
(***************************************************************************)
cytoband_columns == <<"chrom", "start", "end", "cytoband", "stain">>

genelist_columns == <<"chrom", "start", "end", "gene_name">>

CytobandRecords ==
    [chrom : Str, start : Nat, end : Nat, cytoband : Str, stain : Str]

GeneRecords == [chrom : Str, start : Nat, end : Nat, gene_name : Str]

\* self.cytoband_df / self.genelist_df: None (present = FALSE), or a frame
\* whose columns carry the names of the list (named) or still the integer
\* labels read_csv gave them (header=None).
CytobandFrames == [present : BOOLEAN, named : BOOLEAN, rows : Seq(CytobandRecords)]

GeneFrames == [present : BOOLEAN, named : BOOLEAN, rows : Seq(GeneRecords)]

NoFrame == [present |-> FALSE, named |-> FALSE, rows |-> <<>>]

Frame(rows) == [present |-> TRUE, named |-> TRUE, rows |-> rows]

\* A file argument: none given, or a path whose read_csv raises (readable =
\* FALSE), or a CSV of ncols columns.
NoFile == [given |-> FALSE, readable |-> FALSE, ncols |-> 0, rows |-> <<>>]

Unreadable == [given |-> TRUE, readable |-> FALSE, ncols |-> 0, rows |-> <<>>]

Csv(ncols, rows) == [given |-> TRUE, readable |-> TRUE, ncols |-> ncols, rows |-> rows]

\* load_cytoband / load_genelist: the frame the attribute holds afterwards and
\* whether the except branch printed an error.  The attribute is assigned
\* before the columns are named, and naming raises on a length mismatch.
load_table(file, columns) ==
    IF ~file.readable
    THEN [df |-> NoFrame, error |-> TRUE]
    ELSE IF file.ncols # Len(columns)
    THEN [df |-> [present |-> TRUE, named |-> FALSE, rows |-> file.rows], error |-> TRUE]
    ELSE [df |-> Frame(file.rows), error |-> FALSE]

load_cytoband(file) == load_table(file, cytoband_columns)

load_genelist(file) == load_table(file, genelist_columns)

\* __init__: the attribute after construction with this file argument, and
\* whether its load printed an error.
init_cytoband(file) ==
    IF file.given THEN load_cytoband(file) ELSE [df |-> NoFrame, error |-> FALSE]

init_genelist(file) ==
    IF file.given THEN load_genelist(file) ELSE [df |-> NoFrame, error |-> FALSE]

\* df['chrom'] and the other look-ups by column name raise KeyError on a
\* frame whose columns were never named.
raises_KeyError(df) == df.present /\ ~df.named

(***************************************************************************)
(* The two look-ups.                                                       *)
(***************************************************************************)
Contains[seq \in Seq(Str), x \in Str] == \E i \in DOMAIN seq : seq[i] = x

\* Series.unique(): the values in order of first appearance.
unique[seq \in Seq(Str)] ==
    IF seq = <<>> THEN <<>>
    ELSE IF Contains[unique[SubSeq(seq, 1, Len(seq) - 1)], seq[Len(seq)]]
    THEN unique[SubSeq(seq, 1, Len(seq) - 1)]
    ELSE unique[SubSeq(seq, 1, Len(seq) - 1)] \o <<seq[Len(seq)]>>

\* The comparison sorted() applies to two names.
name_lt(a, b) == str_lt[a, b]

insert_sorted[seq \in Seq(Str), x \in Str] ==
    IF seq = <<>> THEN <<x>>
    ELSE IF name_lt(x, Head(seq)) THEN <<x>> \o seq
    ELSE <<Head(seq)>> \o insert_sorted[Tail(seq), x]

\* sorted(names)
sorted[seq \in Seq(Str)] ==
    IF seq = <<>> THEN <<>> ELSE insert_sorted[sorted[Tail(seq)], Head(seq)]

\* The mask of lines 56 and 72.
\* A variant with strict comparisons, which drops a record that only touches
\* the query.
overlap_mask_strict(r, start, end) == r.start < end /\ r.end > start

overlap_mask(r, start, end) == r.start <= end /\ r.end >= start

\* The gene_name column of rows.
gene_names[rows \in Seq(GeneRecords)] ==
    IF rows = <<>> THEN <<>> ELSE <<Head(rows).gene_name>> \o gene_names[Tail(rows)]

\* The cytoband column of rows.
cytoband_labels[rows \in Seq(CytobandRecords)] ==
    IF rows = <<>> THEN <<>> ELSE <<Head(rows).cytoband>> \o cytoband_labels[Tail(rows)]

\* Lines 55 to 61, for the rows of the chromosome.
overlapping_genes[chr_genes \in Seq(GeneRecords), start \in Nat, end \in Nat] ==
    LET Overlaps(r) == overlap_mask(r, start, end)
    IN  IF SelectSeq(chr_genes, Overlaps) = <<>> THEN <<>>
        ELSE sorted[unique[gene_names[SelectSeq(chr_genes, Overlaps)]]]

\* Lines 49 to 54, for the normalised chromosome of the query.
genes_on_chromosome[df \in GeneFrames, chrom_normalize \in Str, start \in Nat, end \in Nat] ==
    LET OnChrom(r) == remove_all[r.chrom, S_chr] = chrom_normalize
    IN  IF SelectSeq(df.rows, OnChrom) = <<>> THEN <<>>
        ELSE overlapping_genes[SelectSeq(df.rows, OnChrom), start, end]

\* get_overlapping_genes on a frame that is None or has its columns named.
get_overlapping_genes[df \in GeneFrames, chrom \in Str, start \in Nat, end \in Nat] ==
    IF ~df.present THEN <<>>
    ELSE genes_on_chromosome[df, remove_all[chrom, S_chr], start, end]

\* Lines 77 to 86 of get_cytoband: the label for the unique labels of the
\* overlapping rows, of which there is at least one.
\* A variant that strips the first character of the last label whatever the
\* arm of the first.
reduce_cytobands_always_strip(cytobands) ==
    IF Len(cytobands) = 1 THEN cytobands[1]
    ELSE cytobands[1] \o <<"-">> \o Tail(cytobands[Len(cytobands)])

reduce_cytobands(cytobands) ==
    IF Len(cytobands) = 1 THEN cytobands[1]
    ELSE LET first_band == cytobands[1]
             last_band == cytobands[Len(cytobands)]
             arm_prefix == IF first_band[1] \in {"p", "q"} THEN <<first_band[1]>> ELSE <<>>
         IN  IF arm_prefix # <<>> /\ startswith[last_band, arm_prefix]
             THEN first_band \o <<"-">> \o Tail(last_band)
             ELSE first_band \o <<"-">> \o last_band

\* Line 76 on.
reduce_unique[cytobands \in Seq(Str)] == reduce_cytobands(cytobands)

\* Lines 71 to 76, for the rows of the chromosome.
overlapping_cytoband[chr_data \in Seq(CytobandRecords), start \in Nat, end \in Nat] ==
    LET Overlaps(r) == overlap_mask(r, start, end)
    IN  IF SelectSeq(chr_data, Overlaps) = <<>> THEN None
        ELSE reduce_unique[unique[cytoband_labels[SelectSeq(chr_data, Overlaps)]]]

\* Lines 68 to 70, for the chromosome string of the query.
cytoband_on_chromosome[df \in CytobandFrames, chrom_str \in Str, start \in Nat, end \in Nat] ==
    LET OnChrom(r) == r.chrom = chrom_str
    IN  IF SelectSeq(df.rows, OnChrom) = <<>> THEN None
        ELSE overlapping_cytoband[SelectSeq(df.rows, OnChrom), start, end]

\* get_cytoband on a frame that is None or has its columns named.
get_cytoband[df \in CytobandFrames, chrom \in Str, start \in Nat, end \in Nat] ==
    IF ~df.present THEN None
    ELSE cytoband_on_chromosome[df, S_chr \o chrom, start, end]

(***************************************************************************)
(* generate_hgvs.                                                          *)
(***************************************************************************)
S_copy3 == <<"[", "3", "]">>
S_copy4 == <<"[", "4", "]">>

\* Line 99 on, for a zygosity that is neither None nor empty.
normalised_copy_number[z \in Str] ==
    IF z \in {S_homozygous, S_hom} THEN S_copy4
    ELSE IF z \in {S_heterozygous, S_het} THEN S_copy3
    ELSE S_copy3

\* Lines 98 to 107: the copy-number suffix of a duplication.
\* A variant that takes the heterozygous suffix for every zygosity.
copy_number_always_3(zygosity) == S_copy3

copy_number(zygosity) ==
    IF zygosity # None /\ zygosity # <<>>
    THEN normalised_copy_number[strip[lower[zygosity]]]
    ELSE S_copy3

\* Line 96.
base_notation[chrom \in Str, start \in Nat, end \in Nat] ==
    S_chr \o chrom \o <<":", "(", "?", "_">> \o str[start] \o <<")", "_", "(">>
        \o str[end] \o <<"_", "?", ")">>

\* The branch lines 97 to 115 take for the normalised event type: event_name,
\* or None for the else branch.
\* A variant whose else branch falls into the deletion branch.
event_name_default_deletion(event_type) ==
    IF event_type \in {S_duplication, S_dup} THEN S_duplication ELSE S_deletion

event_name(event_type) ==
    IF event_type \in {S_duplication, S_dup} THEN S_duplication
    ELSE IF event_type \in {S_deletion, S_del} THEN S_deletion
    ELSE None

\* Lines 108 and 111, for the event name of the branch taken.
hgvs_notation[chrom \in Str, start \in Nat, end \in Nat, name \in Str, zygosity \in Str] ==
    IF name = S_duplication
    THEN base_notation[chrom, start, end] \o <<" ">> \o copy_number(zygosity)
    ELSE base_notation[chrom, start, end] \o S_del

\* Lines 118 to 121.
\* A variant that writes the parenthetical whether or not there is a label.
full_annotation_always_band(hgvs, chrom, cytoband, name) ==
    hgvs \o <<"\n", "(">> \o S_chr \o chrom
        \o (IF cytoband = None THEN <<>> ELSE cytoband) \o S_partial \o name \o <<")">>

full_annotation(hgvs, chrom, cytoband, name) ==
    IF cytoband # None /\ cytoband # <<>>
    THEN hgvs \o <<"\n", "(">> \o S_chr \o chrom \o cytoband \o S_partial \o name \o <<")">>
    ELSE hgvs

\* The message of line 114.
EventMessage(event_type) ==
    [text |-> "Error: Invalid event type '{}'.", args |-> <<event_type>>]

\* What generate_hgvs gives its caller: the tuple (hgvs_notation,
\* full_annotation, genes), or the KeyError a look-up raised.
Returned(hgvs, full, genes) ==
    [raised |-> FALSE, hgvs |-> hgvs, full |-> full, genes |-> genes]

Raised == [raised |-> TRUE, hgvs |-> None, full |-> None, genes |-> <<>>]

\* Lines 118 to 122, with the results of the two look-ups.
annotation[chrom \in Str, name \in Str, hgvs \in Str, cytoband \in Str, genes \in Seq(Str)] ==
    [ret |-> Returned(hgvs, full_annotation(hgvs, chrom, cytoband, name), genes),
     printed |-> <<>>]

\* Lines 97 to 122, for the parsed range, the normalised event type and the
\* event name of its branch.
annotate_range[cyto_df \in CytobandFrames, gene_df \in GeneFrames, range \in ParseResults, event_type \in Str, name \in Str, zygosity \in Str] ==
    IF name = None
    THEN [ret |-> Returned(None, None, <<>>), printed |-> <<EventMessage(event_type)>>]
    ELSE IF raises_KeyError(cyto_df) \/ raises_KeyError(gene_df)
    THEN [ret |-> Raised, printed |-> <<>>]
    ELSE annotation[range.ret.chrom, name,
                    hgvs_notation[range.ret.chrom, range.ret.start, range.ret.end, name,
                                  zygosity],
                    get_cytoband[cyto_df, range.ret.chrom, range.ret.start, range.ret.end],
                    get_overlapping_genes[gene_df, range.ret.chrom, range.ret.start,
                                          range.ret.end]]

\* Lines 92 to 95, for what parse_coordinate gave.
annotate_parsed[cyto_df \in CytobandFrames, gene_df \in GeneFrames, parsed \in ParseResults, event_type \in Str, zygosity \in Str] ==
    IF parsed.ret.none
    THEN [ret |-> Returned(None, None, <<>>), printed |-> parsed.printed]
    ELSE annotate_range[cyto_df, gene_df, parsed, event_type, event_name(event_type),
                        zygosity]

\* generate_hgvs(coordinate, event_type, zygosity) on an annotator holding the
\* two frames: what the caller gets and the lines printed.
generate_hgvs(cyto_df, gene_df, coordinate, event_type, zygosity) ==
    annotate_parsed[cyto_df, gene_df, parse_coordinate[coordinate],
                    strip[lower[event_type]], zygosity]

(***************************************************************************)
(* The Annotate handler of the Streamlit page.                             *)
(***************************************************************************)
\* What the page shows after a press: the st.text lines, the "Found n
\* gene(s)" badge (0 for none), the joined gene names, the gene dataframe,
\* the "No overlapping genes" info box, the st.error box, and the traceback
\* Streamlit shows for an uncaught exception.
NothingShown ==
    [lines |-> <<>>, badge |-> 0, written |-> <<>>, dataframe |-> FALSE,
     info |-> FALSE, error |-> FALSE, exception |-> FALSE]

\* Lines 213 to 216: the first two lines of the annotation.
shown_lines[lines \in Seq(Str)] ==
    IF Len(lines) > 1 THEN SubSeq(lines, 1, 2) ELSE SubSeq(lines, 1, 1)

\* Lines 212 to 233, given the tuple generate_hgvs returned.
annotate_display[full \in Str, genes \in Seq(Str)] ==
    IF full # None /\ full # <<>>
    THEN [lines |-> shown_lines[split[full, "\n"]],
          badge |-> Len(genes),
          written |-> join[genes, <<",", " ">>],
          dataframe |-> Len(genes) > 1,
          info |-> ~(Len(genes) > 1),
          error |-> FALSE,
          exception |-> FALSE]
    ELSE [NothingShown EXCEPT !.error = TRUE]

\* The arguments line 211 passes to generate_hgvs for the widgets' values:
\* zygosity is left to its default.
annotate_call(coordinate, event_type, zygosity) ==
    [coordinate |-> coordinate, event_type |-> event_type, zygosity |-> None]

(***************************************************************************)
(* The inputs of the model.                                                *)
(***************************************************************************)
G_B == <<"B">>
G_AB == <<"A", "B">>
B_p13 == <<"p", "1", "3">>
B_p12 == <<"p", "1", "2">>
B_q11 == <<"q", "1", "1">>
B_p22 == <<"p", "2", "2">>
B_13 == <<"1", "3">>
S_chr16 == <<"c", "h", "r", "1", "6">>
S_chrX == <<"c", "h", "r", "X">>
S_gneg == <<"g", "n", "e", "g">>

T_plain == <<"1", "6", ":", "1", "-", "2">>
T_X == <<"X", ":", "0", "-", "2">>
T_chrMT == <<"c", "h", "r", "M", "T", ":", "1", "-", "2">>
T_spaces == <<" ", "c", "h", "r", "1", "6", ":", "0", "-", "2", " ", "\n">>
T_zeros == <<"c", "h", "r", "1", "6", ":", "0", "1", "-", "2">>
T_far == <<"1", "6", ":", "7", "-", "9">>
T_underscore == <<"c", "h", "r", "1", "6", ":", "1", "_", "2">>
T_trailing == <<"c", "h", "r", "1", "6", ":", "1", "-", "2", "x">>
T_empty == <<>>
T_nochrom == <<"c", "h", "r", ":", "1", "-", "2">>
T_upper == <<"C", "H", "R", "1", "6", ":", "1", "-", "2">>
T_badchrom == <<"Z", ":", "1", "-", "2">>
T_nostart == <<"c", "h", "r", "1", "6", ":", "-", "2">>
T_MTeq == <<"M", "T", ":", "2", "-", "2">>
T_inner == <<"c", "h", "r", "1", "6", ":", " ", "1", "-", "2">>

E_Dup == <<" ", "D", "u", "p", " ">>
E_amplification == <<"a", "m", "p", "l", "i", "f", "i", "c", "a", "t", "i", "o", "n">>
E_Amplification == <<" ", "A", "m", "p", "l", "i", "f", "i", "c", "a", "t", "i", "o", "n">>

Z_Homozygous == <<"H", "o", "m", "o", "z", "y", "g", "o", "u", "s">>
Z_Heterozygous == <<"H", "e", "t", "e", "r", "o", "z", "y", "g", "o", "u", "s">>
Z_HOM == <<" ", "H", "O", "M", " ">>
Z_unknown == <<"u", "n", "k", "n", "o", "w", "n">>
Z_empty == <<>>

\* Coordinate texts: chr16:s-e for every s and e up to MaxPos (start >= end
\* included), and texts that vary the prefix, the chromosome token, the white
\* space, the digits and the separators.
Texts ==
    {S_chr16 \o <<":">> \o str[s] \o <<"-">> \o str[e] : s \in 0..MaxPos, e \in 0..MaxPos}
    \cup {T_plain, T_X, T_chrMT, T_spaces, T_zeros, T_far, T_underscore, T_trailing,
          T_empty, T_nochrom, T_upper, T_badchrom, T_nostart, T_MTeq, T_inner}

\* The coordinate texts of the requests: ranges that end at MaxPos (the last
\* one empty), and texts for the other chromosomes, a range beyond every
\* record, surrounding white space and a malformed text.
RequestTexts ==
    {S_chr16 \o <<":">> \o str[s] \o <<"-">> \o str[MaxPos] : s \in 0..MaxPos}
    \cup {T_plain, T_X, T_chrMT, T_far, T_spaces, T_empty}

EventTypes == {S_duplication, S_dup, S_deletion, S_del, E_Dup, E_amplification,
               E_Amplification}

Zygosities == {None, S_hom, Z_Homozygous, Z_Heterozygous, Z_HOM, Z_unknown, Z_empty}

\* The options of the two select boxes of the page.
ZygosityOptions == {Z_Homozygous, Z_Heterozygous}

EventTypeOptions == {S_duplication, S_deletion}

CytoRow(c, s, e, band) ==
    [chrom |-> c, start |-> s, end |-> e, cytoband |-> band, stain |-> S_gneg]

GeneRow(c, s, e, g) == [chrom |-> c, start |-> s, end |-> e, gene_name |-> g]

\* A cytoband file in the layout of cytoBand.csv: bands in chromosome order,
\* the chromosome written with its chr prefix.
CytoBandCsv ==
    <<CytoRow(S_chr16, 0, 0, B_p13), CytoRow(S_chr16, 1, 1, B_p13),
      CytoRow(S_chr16, 2, 2, B_p12), CytoRow(S_chr16, 3, 3, B_q11),
      CytoRow(S_chrX, 0, 0, B_p22)>>

\* The same bands with the chromosome written without the prefix.
CytoBandBareCsv ==
    [i \in DOMAIN CytoBandCsv |->
        [CytoBandCsv[i] EXCEPT !.chrom = remove_all[CytoBandCsv[i].chrom, S_chr]]]

GenelistCsv ==
    <<GeneRow(S_16, 0, 1, G_B), GeneRow(S_chr16, 1, 2, G_AB),
      GeneRow(S_16, 2, 2, G_B), GeneRow(S_X, 0, 0, G_AB)>>

\* The file arguments of the constructor: none, an unreadable path, a CSV
\* with one column too few, and well-formed CSVs.
CytobandFiles ==
    {NoFile, Unreadable, Csv(Len(cytoband_columns) - 1, CytoBandCsv),
     Csv(Len(cytoband_columns), CytoBandCsv), Csv(Len(cytoband_columns), CytoBandBareCsv)}

GenelistFiles ==
    {NoFile, Unreadable, Csv(Len(genelist_columns) - 1, GenelistCsv),
     Csv(Len(genelist_columns), GenelistCsv)}

\* The tables of the look-up specifications: every sequence of at most
\* MaxRows rows, in any order and with repetitions.
Positions == 1..MaxPos

SeqsUpTo(S, n) == UNION {[1..k -> S] : k \in 0..n}

GeneRows ==
    {GeneRow(c, s, e, g) : c \in {S_16, S_chr16}, s \in Positions,
                           e \in Positions, g \in {G_B, G_AB}}

CytoRows ==
    {CytoRow(S_chr16, s, e, b) : s \in Positions, e \in Positions,
                                 b \in {B_p13, B_p12, B_q11, B_13}}

WellFormed(rows) == \A i \in DOMAIN rows : rows[i].start <= rows[i].end

\* Longer tables: a gene name on two rows around another name, and a band
\* label on two rows before or around another label.
GeneExamples ==
    {<<GeneRow(S_16, 1, 1, G_B), GeneRow(S_chr16, 1, 2, G_AB), GeneRow(S_16, 2, 2, G_B)>>,
     <<GeneRow(S_chr16, 1, 1, G_AB), GeneRow(S_16, 1, 2, G_B), GeneRow(S_16, 2, 2, G_AB)>>}

CytoExamples ==
    {<<CytoRow(S_chr16, 1, 1, B_p13), CytoRow(S_chr16, 1, 2, B_p13),
       CytoRow(S_chr16, 2, 2, B_p12)>>,
     <<CytoRow(S_chr16, 1, 1, B_p12), CytoRow(S_chr16, 1, 2, B_p13),
       CytoRow(S_chr16, 2, 2, B_p12)>>,
     <<CytoRow(S_chr16, 1, 1, B_p13), CytoRow(S_chr16, 1, 2, B_p13),
       CytoRow(S_chr16, 2, 2, B_q11)>>}

GeneTables == {t \in SeqsUpTo(GeneRows, MaxRows) : WellFormed(t)} \cup GeneExamples

CytoTables == {t \in SeqsUpTo(CytoRows, MaxRows) : WellFormed(t)} \cup CytoExamples

\* The chromosomes of a direct look-up.
QueryChroms == {S_16, S_chr16, S_X}

(***************************************************************************)
(* State.                                                                  *)
(***************************************************************************)
VARIABLES
    cytoband_file, \* the cytoband file given to the constructor
    genelist_file, \* the gene list file given to the constructor
    cytoband_df,   \* self.cytoband_df
    genelist_df,   \* self.genelist_df
    load_errors,   \* the loads whose except branch printed an error
    call,          \* the call whose result the caller holds: the method and its arguments
    ret,           \* what that call returned or raised
    printed,       \* the lines that call printed
    shown,         \* what the page shows after a press of Annotate
    served         \* the number of calls made on the annotator so far

vars == <<cytoband_file, genelist_file, cytoband_df, genelist_df, load_errors,
          call, ret, printed, shown, served>>

files == <<cytoband_file, genelist_file>>

tables == <<cytoband_df, genelist_df>>

Call(op, coordinate, event_type, zygosity, chrom, start, end) ==
    [op |-> op, coordinate |-> coordinate, event_type |-> event_type,
     zygosity |-> zygosity, chrom |-> chrom, start |-> start, end |-> end]

NoCall == Call("none", <<>>, <<>>, None, <<>>, 0, 0)

\* The return value of every method in one shape; a field a method does not
\* return keeps the value it has here.
NoReturn ==
    [raised |-> FALSE, none |-> FALSE, chrom |-> <<>>, start |-> 0, end |-> 0,
     hgvs |-> None, full |-> None, genes |-> <<>>, cytoband |-> None]

\* annotator = HGVSCNVAnnotator(cytoband_file, genelist_file)
Construct(cyto_file, gene_file) ==
    /\ cytoband_file = cyto_file
    /\ genelist_file = gene_file
    /\ cytoband_df = init_cytoband(cytoband_file).df
    /\ genelist_df = init_genelist(genelist_file).df
    /\ load_errors =
           (IF init_cytoband(cytoband_file).error THEN {"cytoband"} ELSE {})
           \cup (IF init_genelist(genelist_file).error THEN {"genelist"} ELSE {})
    /\ call = NoCall
    /\ ret = NoReturn
    /\ printed = <<>>
    /\ shown = NothingShown
    /\ served = 0

(***************************************************************************)
(* The operations.                                                         *)
(***************************************************************************)
\* The program is single-threaded and synchronous: a call starts when no
\* other call's result is still held by its caller.
Idle == call.op = "none" /\ served < MaxCalls

\* annotator.parse_coordinate(coordinate)
ParseCoordinate ==
    /\ Idle
    /\ \E coordinate \in Texts :
        \E r \in {parse_coordinate[coordinate]} :
            /\ call' = Call("parse_coordinate", coordinate, <<>>, None, <<>>, 0, 0)
            /\ ret' = [NoReturn EXCEPT !.none = r.ret.none, !.chrom = r.ret.chrom,
                                       !.start = r.ret.start, !.end = r.ret.end]
            /\ printed' = r.printed
            /\ served' = served + 1
        /\ UNCHANGED <<files, cytoband_df, genelist_df, load_errors, shown>>

\* annotator.get_overlapping_genes(chrom, start, end)
GetOverlappingGenes ==
    /\ Idle
    /\ \E chrom \in QueryChroms, start \in Positions, end \in Positions :
        /\ call' = Call("get_overlapping_genes", <<>>, <<>>, None, chrom, start, end)
        /\ ret' = IF raises_KeyError(genelist_df)
                  THEN [NoReturn EXCEPT !.raised = TRUE]
                  ELSE [NoReturn EXCEPT
                            !.genes = get_overlapping_genes[genelist_df, chrom, start, end]]
        /\ printed' = <<>>
        /\ served' = served + 1
        /\ UNCHANGED <<files, cytoband_df, genelist_df, load_errors, shown>>

\* annotator.get_cytoband(chrom, start, end)
GetCytoband ==
    /\ Idle
    /\ \E chrom \in QueryChroms, start \in Positions, end \in Positions :
        /\ call' = Call("get_cytoband", <<>>, <<>>, None, chrom, start, end)
        /\ ret' = IF raises_KeyError(cytoband_df)
                  THEN [NoReturn EXCEPT !.raised = TRUE]
                  ELSE [NoReturn EXCEPT
                            !.cytoband = get_cytoband[cytoband_df, chrom, start, end]]
        /\ printed' = <<>>
        /\ served' = served + 1
        /\ UNCHANGED <<files, cytoband_df, genelist_df, load_errors, shown>>

\* The rows of the gene table a request for this coordinate reads.
rows_read[rows \in Seq(GeneRecords), range \in ParseResults] ==
    LET Overlaps(row) == overlap_mask(row, range.ret.start, range.ret.end)
    IN  IF range.ret.none THEN rows ELSE SelectSeq(rows, Overlaps)

\* A variant of the request that keeps the filtered frame in place of the
\* gene table (a filter without .copy() assigned back to the attribute).
GenerateHgvsFilteringInPlace ==
    /\ Idle
    /\ \E coordinate \in RequestTexts, event_type \in EventTypes, zygosity \in Zygosities :
        \E r \in {generate_hgvs(cytoband_df, genelist_df, coordinate, event_type, zygosity)} :
            /\ call' = Call("generate_hgvs", coordinate, event_type, zygosity, <<>>, 0, 0)
            /\ ret' = [NoReturn EXCEPT !.raised = r.ret.raised, !.hgvs = r.ret.hgvs,
                                       !.full = r.ret.full, !.genes = r.ret.genes]
            /\ printed' = r.printed
            /\ genelist_df' =
                   [genelist_df EXCEPT !.rows = rows_read[@, parse_coordinate[coordinate]]]
            /\ served' = served + 1
        /\ UNCHANGED <<files, cytoband_df, load_errors, shown>>

\* annotator.generate_hgvs(coordinate, event_type, zygosity)
GenerateHgvs ==
    /\ Idle
    /\ \E coordinate \in RequestTexts, event_type \in EventTypes, zygosity \in Zygosities :
        \E r \in {generate_hgvs(cytoband_df, genelist_df, coordinate, event_type, zygosity)} :
            /\ call' = Call("generate_hgvs", coordinate, event_type, zygosity, <<>>, 0, 0)
            /\ ret' = [NoReturn EXCEPT !.raised = r.ret.raised, !.hgvs = r.ret.hgvs,
                                       !.full = r.ret.full, !.genes = r.ret.genes]
            /\ printed' = r.printed
            /\ served' = served + 1
        /\ UNCHANGED <<files, cytoband_df, genelist_df, load_errors, shown>>

\* A press of the Annotate button with the three widgets holding these values.
Annotate ==
    /\ Idle
    /\ \E coordinate \in RequestTexts, event_type \in EventTypeOptions,
          zygosity \in ZygosityOptions :
        \E a \in {annotate_call(coordinate, event_type, zygosity)} :
        \E r \in {generate_hgvs(cytoband_df, genelist_df, a.coordinate, a.event_type,
                                a.zygosity)} :
            /\ call' = Call("annotate", coordinate, event_type, zygosity, <<>>, 0, 0)
            /\ ret' = [NoReturn EXCEPT !.raised = r.ret.raised, !.hgvs = r.ret.hgvs,
                                       !.full = r.ret.full, !.genes = r.ret.genes]
            /\ printed' = r.printed
            /\ shown' = IF r.ret.raised
                        THEN [NothingShown EXCEPT !.exception = TRUE]
                        ELSE annotate_display[r.ret.full, r.ret.genes]
            /\ served' = served + 1
        /\ UNCHANGED <<files, cytoband_df, genelist_df, load_errors>>

\* The caller is done with the result of its call (for a press of Annotate,
\* the page has been rendered); the annotator and its tables stay as they are.
Return ==
    /\ call.op # "none"
    /\ call' = NoCall
    /\ ret' = NoReturn
    /\ printed' = <<>>
    /\ shown' = NothingShown
    /\ UNCHANGED <<files, cytoband_df, genelist_df, load_errors, served>>

(***************************************************************************)
(* Specifications.                                                         *)
(***************************************************************************)
\* The annotator built from its two files, then any sequence of calls and
\* presses.
Init ==
    \E cyto_file \in CytobandFiles, gene_file \in GenelistFiles :
        Construct(cyto_file, gene_file)

Next == ParseCoordinate \/ GenerateHgvs \/ Annotate \/ Return

Spec == Init /\ [][Next]_vars

\* get_overlapping_genes over every gene table of at most MaxRows rows.
InitGenes ==
    \E rows \in GeneTables :
        Construct(NoFile, Csv(Len(genelist_columns), rows))

NextGenes == GetOverlappingGenes

SpecGenes == InitGenes /\ [][NextGenes]_vars

\* get_cytoband over every cytoband table of at most MaxRows rows.
InitCyto ==
    \E rows \in CytoTables :
        Construct(Csv(Len(cytoband_columns), rows), NoFile)

NextCyto == GetCytoband

SpecCyto == InitCyto /\ [][NextCyto]_vars


(***************************************************************************)
(* Properties of the two look-ups.                                         *)
(***************************************************************************)
\* A chromosome name without its leading "chr".
WithoutChrPrefix(c) ==
    IF Len(c) >= 3 /\ SubSeq(c, 1, 3) = <<"c", "h", "r">> THEN SubSeq(c, 4, Len(c)) ELSE c

\* The rows of the gene table on the chromosome of the call, whatever the
\* spelling, whose closed interval meets the range of the call.
GenesOnRange ==
    {i \in DOMAIN genelist_df.rows :
        /\ WithoutChrPrefix(genelist_df.rows[i].chrom) = WithoutChrPrefix(call.chrom)
        /\ genelist_df.rows[i].start <= call.end
        /\ genelist_df.rows[i].end >= call.start}

\* The rows of the cytoband table on the chromosome of the call, whatever the
\* spelling, whose closed interval meets the range of the call.
BandsOnRange ==
    {i \in DOMAIN cytoband_df.rows :
        /\ WithoutChrPrefix(cytoband_df.rows[i].chrom) = WithoutChrPrefix(call.chrom)
        /\ cytoband_df.rows[i].start <= call.end
        /\ cytoband_df.rows[i].end >= call.start}

\* The rows get_cytoband compares equal to "chr" + chrom, whose closed
\* interval meets the range of the call.
BandsSelected ==
    {i \in DOMAIN cytoband_df.rows :
        /\ cytoband_df.rows[i].chrom = <<"c", "h", "r">> \o call.chrom
        /\ cytoband_df.rows[i].start <= call.end
        /\ cytoband_df.rows[i].end >= call.start}

\* Of the selected rows, those whose label no earlier selected row carries.
FirstSeen ==
    {i \in BandsSelected :
        \A j \in BandsSelected : j < i => cytoband_df.rows[j].cytoband # cytoband_df.rows[i].cytoband}

Least(S) == CHOOSE i \in S : \A j \in S : i <= j

Greatest(S) == CHOOSE i \in S : \A j \in S : j <= i

\* first + "-" + last, last without its arm letter when first begins with p
\* or q and last begins with the same letter.
BandRange(first, last) ==
    first \o <<"-">>
        \o (IF first[1] \in {"p", "q"} /\ last[1] = first[1] THEN Tail(last) ELSE last)

\* C1: get_overlapping_genes returns exactly the names of the records on the
\* chromosome of the query whose closed interval satisfies r.start <= end and
\* r.end >= start, each name once and in ascending lexicographic order (the
\* empty list when no record matches).
C1_OverlappingGenes ==
    call.op = "get_overlapping_genes" =>
        /\ ~ret.raised
        /\ \A i \in 1..(Len(ret.genes) - 1) : str_lt[ret.genes[i], ret.genes[i + 1]]
        /\ {ret.genes[i] : i \in DOMAIN ret.genes}
               = {genelist_df.rows[i].gene_name : i \in GenesOnRange}

\* C1: a call that met all three rows of a table, spelt "16" and "chr16", the
\* first touching the query at its start coordinate only, one name on two
\* rows, the names out of order in the table and sorted in the result.
C1_Witness ==
    /\ call.op = "get_overlapping_genes"
    /\ Len(genelist_df.rows) = 3
    /\ Cardinality(GenesOnRange) = 3
    /\ genelist_df.rows[1].gene_name = G_B
    /\ genelist_df.rows[1].chrom # genelist_df.rows[2].chrom
    /\ genelist_df.rows[1].end = call.start
    /\ call.start < call.end
    /\ ret.genes = <<G_AB, G_B>>

\* C2: in both look-ups the chromosome of the query and of each record are
\* compared without their "chr" prefix: get_cytoband finds a label exactly
\* when a record of the chromosome, in either spelling, overlaps the range,
\* and get_overlapping_genes returns the names of those records.
C2_ChromosomeNormalised ==
    /\ call.op = "get_cytoband" => (ret.cytoband # None <=> BandsOnRange # {})
    /\ call.op = "get_overlapping_genes" =>
           {ret.genes[i] : i \in DOMAIN ret.genes}
               = {genelist_df.rows[i].gene_name : i \in GenesOnRange}

\* C3: get_cytoband returns None when no record of the chromosome overlaps
\* the range; otherwise, with D the labels of the overlapping records in
\* table order without repetitions, D[0] when D has one label and otherwise
\* D[0] + "-" + D[-1], D[-1] without its first character exactly when D[0]
\* begins with p or q and D[-1] begins with the same letter.
C3_CytobandReduced ==
    call.op = "get_cytoband" =>
        /\ ~ret.raised
        /\ ret.cytoband =
               IF BandsSelected = {} THEN None
               ELSE IF Cardinality(FirstSeen) = 1
               THEN cytoband_df.rows[Least(FirstSeen)].cytoband
               ELSE BandRange(cytoband_df.rows[Least(FirstSeen)].cytoband,
                              cytoband_df.rows[Greatest(FirstSeen)].cytoband)

\* C3: a call that found the labels p13, p13 and p12, in this order, and
\* returned "p13-12".
C3_Witness ==
    /\ call.op = "get_cytoband"
    /\ Cardinality(BandsSelected) = 3
    /\ Cardinality(FirstSeen) = 2
    /\ ret.cytoband = <<"p", "1", "3", "-", "1", "2">>

(***************************************************************************)
(* Properties of parse_coordinate, generate_hgvs and the page.             *)
(***************************************************************************)
\* The case of a coordinate text: a range, a text of another shape, or a
\* text of the right shape whose start is not below its end.
Outcome(text) ==
    IF ~coordinate_pattern[strip[text]].matched THEN "MalformedCoordinate"
    ELSE IF int[coordinate_pattern[strip[text]].group3]
                >= int[coordinate_pattern[strip[text]].group4]
    THEN "InvalidRange"
    ELSE "Range"

\* What the caller of parse_coordinate holds afterwards.
ParseReturn == [none |-> ret.none, chrom |-> ret.chrom, start |-> ret.start, end |-> ret.end]

\* The range a request works on, and its event type trimmed and lower-cased.
ParsedRange == parse_coordinate[call.coordinate].ret

NormalisedEvent == strip[lower[call.event_type]]

ValidEvents == {S_duplication, S_dup, S_deletion, S_del}

ValidRequest == ~ParsedRange.none /\ NormalisedEvent \in ValidEvents

IsHomozygous(zygosity) ==
    zygosity # None /\ strip[lower[zygosity]] \in {S_homozygous, S_hom}

\* "chr{chromosome}:(?_{start})_({end}_?)" and the notation built on it.
ExpectedBase ==
    <<"c", "h", "r">> \o ParsedRange.chrom \o <<":", "(", "?", "_">>
        \o str[ParsedRange.start] \o <<")", "_", "(">> \o str[ParsedRange.end]
        \o <<"_", "?", ")">>

ExpectedNotation(zygosity) ==
    IF NormalisedEvent \in {S_duplication, S_dup}
    THEN ExpectedBase \o (IF IsHomozygous(zygosity) THEN <<" ", "[", "4", "]">>
                          ELSE <<" ", "[", "3", "]">>)
    ELSE ExpectedBase \o <<"d", "e", "l">>

ExpectedEventName ==
    IF NormalisedEvent \in {S_duplication, S_dup} THEN S_duplication ELSE S_deletion

\* A cytoband record on "chr" + chromosome overlaps the range of the request.
LabelFound ==
    \E i \in DOMAIN cytoband_df.rows :
        /\ cytoband_df.rows[i].chrom = <<"c", "h", "r">> \o ParsedRange.chrom
        /\ cytoband_df.rows[i].start <= ParsedRange.end
        /\ cytoband_df.rows[i].end >= ParsedRange.start

\* A table is absent: no file was given for it, or its load reported an error.
CytobandAbsent == ~cytoband_file.given \/ "cytoband" \in load_errors

GenelistAbsent == ~genelist_file.given \/ "genelist" \in load_errors

\* C4: for a parsed range, a call of generate_hgvs that returns builds the
\* notation on "chr{chromosome}:(?_{start})_({end}_?)": for duplication or
\* dup, a space and "[4]" exactly when the trimmed, lower-cased zygosity is
\* homozygous or hom and "[3]" for every other zygosity, None included; for
\* deletion or del, "del" right after the base, whatever the zygosity.
C4_Notation ==
    (call.op = "generate_hgvs" /\ ValidRequest /\ ~ret.raised) =>
        ret.hgvs = ExpectedNotation(call.zygosity)

\* C4: a duplication written " Dup " with zygosity " HOM " on " chr16:0-2 \n"
\* gave "chr16:(?_0)_(2_?) [4]".
C4_Witness ==
    /\ call.op = "generate_hgvs"
    /\ call.coordinate = T_spaces
    /\ call.event_type = E_Dup
    /\ call.zygosity = Z_HOM
    /\ ret.hgvs = <<"c", "h", "r", "1", "6", ":", "(", "?", "_", "0", ")", "_", "(", "2",
                    "_", "?", ")", " ", "[", "4", "]">>

\* C5: parse_coordinate has three outcomes its caller can tell apart: the
\* range (chromosome without prefix, start, end) for a text of the right
\* shape with start < end, MalformedCoordinate for a text of another shape,
\* InvalidRange for a text of the right shape with start >= end; so two texts
\* with the same return value are of the same case.
C5_OutcomesToldApart ==
    call.op = "parse_coordinate" =>
        /\ Outcome(call.coordinate) = "Range" <=> ~ret.none
        /\ \A other \in Texts :
               parse_coordinate[other].ret = ParseReturn =>
                   Outcome(other) = Outcome(call.coordinate)

C7_FullAnnotation ==
    (call.op = "generate_hgvs" /\ ~ret.raised /\ ret.hgvs # None) =>
        /\ LabelFound <=> ret.full # ret.hgvs
        /\ LabelFound =>
               ret.full = ret.hgvs \o <<"\n", "(", "c", "h", "r">> \o ParsedRange.chrom
                              \o get_cytoband[cytoband_df, ParsedRange.chrom,
                                              ParsedRange.start, ParsedRange.end]
                              \o <<" ", "p", "a", "r", "t", "i", "a", "l", " ">>
                              \o ExpectedEventName \o <<")">>

\* C7: a deletion over the bands p13, p13 and p12 of chr16 gave the second
\* line "(chr16p13-12 partial deletion)".
C7_Witness ==
    /\ call.op = "generate_hgvs"
    /\ ret.hgvs # None
    /\ ret.full = ret.hgvs \o <<"\n", "(", "c", "h", "r", "1", "6", "p", "1", "3", "-", "1",
                                "2", " ", "p", "a", "r", "t", "i", "a", "l", " ">>
                      \o S_deletion \o <<")">>

\* C8: with a table absent, every generate_hgvs call with a valid coordinate
\* and event type returns the notation and does not raise; an absent
\* cytoband table gives full_annotation equal to the notation, an absent gene
\* table gives the empty gene list.
C8_AbsentTableNeverFails ==
    (call.op = "generate_hgvs" /\ ValidRequest /\ (CytobandAbsent \/ GenelistAbsent)) =>
        /\ ~ret.raised
        /\ ret.hgvs = ExpectedNotation(call.zygosity)
        /\ CytobandAbsent => ret.full = ret.hgvs
        /\ GenelistAbsent => ret.genes = <<>>

\* C9: after the load, requests leave the two tables as they were loaded, and
\* what a generate_hgvs request returns and prints is what it returns and
\* prints on the tables as loaded, whatever requests ran before it.
C9_TablesReadOnly ==
    /\ cytoband_df = init_cytoband(cytoband_file).df
    /\ genelist_df = init_genelist(genelist_file).df
    /\ call.op = "generate_hgvs" =>
           /\ [raised |-> ret.raised, hgvs |-> ret.hgvs, full |-> ret.full,
               genes |-> ret.genes]
                  = generate_hgvs(init_cytoband(cytoband_file).df,
                                  init_genelist(genelist_file).df,
                                  call.coordinate, call.event_type, call.zygosity).ret
           /\ printed = generate_hgvs(init_cytoband(cytoband_file).df,
                                      init_genelist(genelist_file).df,
                                      call.coordinate, call.event_type,
                                      call.zygosity).printed

\* C9: a second request on the annotator that read both tables.
C9_Witness ==
    /\ served > 1
    /\ call.op = "generate_hgvs"
    /\ ret.genes = <<G_AB, G_B>>
    /\ ret.full # ret.hgvs

\* C10: a press of Annotate shows the notation generate_hgvs builds for the
\* coordinate entered, the event type selected and the zygosity selected.
C10_ShownUsesZygosity ==
    (call.op = "annotate" /\ ValidRequest /\ ~shown.exception) =>
        /\ Len(shown.lines) >= 1
        /\ shown.lines[1] = ExpectedNotation(call.zygosity)

=============================================================================
